---- MODULE Spec2Model ----
(***************************************************************************)
(* A model of the neuromancer Problem graph executor                       *)
(* (src/neuromancer/problem.py) and of the windowed batching of            *)
(* src/neuromancer/dataset.py.                                             *)
(*                                                                         *)
(* Tensors are abstracted to integers; a dictionary is a function from a   *)
(* finite set of strings to values.                                        *)
(***************************************************************************)
EXTENDS Integers, Sequences, FiniteSets, TLC

\* --------------------------------------------------------------- bounds
MaxComponents == 2
MaxObjectives == 2
MaxConstraints == 1

VARIABLES
    pc,           \* position of the caller / of the running method
    objectives,   \* Problem.objectives
    constraints,  \* Problem.constraints
    components,   \* Problem.components
    op,           \* the method the caller invoked: forward, step or calculate_loss
    data,         \* the dictionary object the caller passed in
    input_dict,   \* the local name input_dict / output_dict of the running method
    aliased,      \* TRUE while input_dict is still the caller's object
    idx,          \* position of the running for loop
    loss,         \* local variable loss of calculate_loss
    err,          \* the exception that ended the call, if any
    result,       \* the returned value, None until the call returns
    trace,        \* history: the calls made to components and loss terms
    x,            \* the series handed to the batching functions, a sequence of rows
    steps,        \* the horizon: argument steps / nsteps
    mh,           \* moving horizon: argument mh / moving_horizon / batch_type = 'mh'
    batched,      \* the tensor a batching function returned
    bpc,          \* position of the caller of the batching functions
    layout,       \* the variables of the data mapping: name and number of columns
    ds,           \* the fields of the SequenceDataset object, once constructed
    args,         \* further arguments of the call in progress
    out           \* the value the last call returned

\* the state of a Problem and of a call on it
pvars == <<pc, objectives, constraints, components, op, data, input_dict,
           aliased, idx, loss, err, result, trace>>

\* the state of the batching functions
bvars == <<x, steps, mh, batched, bpc, layout, ds, args, out>>

vars == <<pvars, bvars>>

\* ------------------------------------------------------- python values
None == [None |-> TRUE]

\* An exception: its class, its args tuple and the method that raised it.
NoError == [type |-> "none", args |-> <<>>, where |-> ""]

UniqueNamesMsg == "All objectives and constraints must have unique names."

NameCollisionMsg == "Name collision in input and output dictionaries"

\* assert <condition>, msg
AssertionError(msg, where) ==
    [type |-> "AssertionError", args |-> <<msg>>, where |-> where]

\* variables[k] on a missing key: KeyError(k), whose args hold the key only
KeyError(k, where) == [type |-> "KeyError", args |-> <<k>>, where |-> where]

EmptyDict == [k \in {} |-> 0]

\* a merge that keeps the outputs only
MergeOutputsOnly(a, b) == b

\* {**a, **b}
Merge(a, b) ==
    [k \in DOMAIN a \cup DOMAIN b |-> IF k \in DOMAIN b THEN b[k] ELSE a[k]]

\* d[k] = v on a dictionary object
SetItem(d, k, v) == [q \in DOMAIN d \cup {k} |-> IF q = k THEN v ELSE d[q]]

RECURSIVE SumSeq(_)
SumSeq(s) == IF s = <<>> THEN 0 ELSE Head(s) + SumSeq(Tail(s))

SeqsUpTo(S, n) == UNION {[1..k -> S] : k \in 0..n}

\* first key of the sequence ks that is absent from d ("" when none is)
FirstMissing(ks, d) ==
    IF \E j \in 1..Len(ks) : ks[j] \notin DOMAIN d
    THEN ks[CHOOSE j \in 1..Len(ks) :
                /\ ks[j] \notin DOMAIN d
                /\ \A h \in 1..(j - 1) : ks[h] \in DOMAIN d]
    ELSE ""

\* ------------------------------------------------------- loss terms
\* A loss term: name, weight, variable_names and the callable loss, here
\* loss(*args) = const + coef * sum(args).
TermA == [name |-> "a", weight |-> 2, variable_names |-> <<>>,
          const |-> 3, coef |-> 0]
TermB == [name |-> "b", weight |-> 1, variable_names |-> <<"a">>,
          const |-> 0, coef |-> 3]
TermX == [name |-> "x0", weight |-> 0, variable_names |-> <<"u">>,
          const |-> 1, coef |-> 1]

TermL == [name |-> "loss", weight |-> 1, variable_names |-> <<"reg", "u">>,
          const |-> 0, coef |-> 2]

TermPool == {TermA, TermB, TermX, TermL}

\* the callable loss applied to the looked-up tensors
LossFn(o, variables) ==
    o.const + o.coef * SumSeq([j \in 1..Len(o.variable_names) |->
                                  variables[o.variable_names[j]]])

\* a term call that forgets the weight
ObjectiveCallUnweighted(o, variables) ==
    LET miss == FirstMissing(o.variable_names, variables) IN
    IF miss # ""
    THEN [raised |-> TRUE, key |-> miss, value |-> 0]
    ELSE [raised |-> FALSE, key |-> "", value |-> LossFn(o, variables)]

\* a term call that reads a missing key as 0, as variables.get(k, 0) would
ObjectiveCallDefaultZero(o, variables) ==
    LET padded == [k \in DOMAIN variables
                        \cup {o.variable_names[j] : j \in 1..Len(o.variable_names)} |->
                      IF k \in DOMAIN variables THEN variables[k] ELSE 0]
    IN [raised |-> FALSE, key |-> "", value |-> o.weight * LossFn(o, padded)]

\* Objective.__call__: weight * loss(*[variables[k] for k in variable_names]);
\* a missing key raises KeyError(k) from the dictionary lookup.
ObjectiveCall(o, variables) ==
    LET miss == FirstMissing(o.variable_names, variables) IN
    IF miss # ""
    THEN [raised |-> TRUE, key |-> miss, value |-> 0]
    ELSE [raised |-> FALSE, key |-> "", value |-> o.weight * LossFn(o, variables)]

\* ------------------------------------------------------- components
\* A component is a callable from a dictionary to a dictionary (kind "dict")
\* or to a bare tensor (kind "tensor").
CompEstim == [name |-> "estim", kind |-> "dict", input_keys |-> <<"u">>,
              output_keys |-> {"x0", "reg"}, bias |-> 1]
CompA == [name |-> "a", kind |-> "tensor", input_keys |-> <<"x0">>,
          output_keys |-> {}, bias |-> 4]

CompModel == [name |-> "model", kind |-> "dict", input_keys |-> <<"x0", "u">>,
              output_keys |-> {"y"}, bias |-> 2]

CompPool == {CompEstim, CompModel, CompA}

ComponentCall(c, d) ==
    LET miss == FirstMissing(c.input_keys, d)
        v == c.bias + SumSeq([j \in 1..Len(c.input_keys) |-> d[c.input_keys[j]]])
    IN
    IF miss # ""
    THEN [raised |-> TRUE, key |-> miss, isTensor |-> FALSE, dict |-> EmptyDict,
          tensor |-> 0]
    ELSE IF c.kind = "tensor"
    THEN [raised |-> FALSE, key |-> "", isTensor |-> TRUE, dict |-> EmptyDict,
          tensor |-> v]
    ELSE [raised |-> FALSE, key |-> "", isTensor |-> FALSE,
          dict |-> [k \in c.output_keys |-> v], tensor |-> 0]

\* ------------------------------------------------------- input data
DataPool == {
    [name |-> "train", u |-> 1],
    [name |-> "dev", u |-> 2, x0 |-> 7],
    [name |-> "train", loss |-> 5],
    [u |-> 1]
}

Ops == {"forward", "step", "calculate_loss"}

\* ------------------------------------------------------- Problem
\* a uniqueness check that looks at the objectives only
check_unique_names_objectives_only(objs, cons) ==
    Cardinality({objs[j].name : j \in 1..Len(objs)}) = Len(objs)

\* Problem._check_unique_names
check_unique_names(objs, cons) ==
    LET num_unique == Cardinality({objs[j].name : j \in 1..Len(objs)}
                                  \cup {cons[j].name : j \in 1..Len(cons)})
        num_objectives == Len(objs) + Len(cons)
    IN num_unique = num_objectives

\* a collision check that lets every output dictionary through
check_name_collision_dicts_always_passes(in_dict, out_dict) == TRUE

\* a collision check that passes as soon as one output key is new
check_name_collision_dicts_any_new(in_dict, out_dict) ==
    DOMAIN out_dict = {} \/ (DOMAIN out_dict \ DOMAIN in_dict) # {}

\* Problem._check_name_collision_dicts: TRUE when the assertion passes
check_name_collision_dicts(in_dict, out_dict) ==
    (DOMAIN out_dict \ DOMAIN in_dict) = DOMAIN out_dict

\* if isinstance(output_dict, torch.Tensor): output_dict = {name: output_dict}
AsDict(name, isTensor, tensor, dict) ==
    IF isTensor THEN [k \in {name} |-> tensor] ELSE dict

\* loss = output_dict[objective.name]: the total is assigned, not accumulated
AddLossAssign(total, output_dict, name) == output_dict[name]

\* loss += output_dict[objective.name]
AddLoss(total, output_dict, name) == total + output_dict[name]

\* the tag appended instead of prepended
PrefixKeyAsSuffix(t, k) == k \o "_" \o t

\* f'{data["name"]}_{k}'
PrefixKey(t, k) == t \o "_" \o k

\* {f'{data["name"]}_{k}': v for k, v in output_dict.items()}
PrefixDict(t, d) ==
    [kk \in {PrefixKey(t, k) : k \in DOMAIN d} |->
        d[CHOOSE k \in DOMAIN d : PrefixKey(t, k) = kk]]

ProblemInit ==
    /\ pc = "new"
    /\ objectives = <<>>
    /\ constraints = <<>>
    /\ components = <<>>
    /\ op = ""
    /\ data = EmptyDict
    /\ input_dict = EmptyDict
    /\ aliased = FALSE
    /\ idx = 0
    /\ loss = 0
    /\ err = NoError
    /\ result = None
    /\ trace = <<>>

\* Problem.__init__
Construct ==
    /\ pc = "new"
    /\ \E objs \in SeqsUpTo(TermPool, MaxObjectives),
          cons \in SeqsUpTo(TermPool, MaxConstraints),
          comps \in SeqsUpTo(CompPool, MaxComponents) :
        /\ objectives' = objs
        /\ constraints' = cons
        /\ components' = comps
        /\ IF check_unique_names(objs, cons)
           THEN pc' = "built" /\ err' = err
           ELSE pc' = "failed" /\ err' = AssertionError(UniqueNamesMsg, "__init__")
    /\ UNCHANGED <<op, data, input_dict, aliased, idx, loss, result, trace>>
    /\ UNCHANGED bvars

\* the caller invokes forward, step or calculate_loss on a dictionary
Call ==
    /\ pc = "built"
    /\ \E o \in Ops, d \in DataPool :
        /\ op' = o
        /\ data' = d
        /\ input_dict' = d
        /\ aliased' = TRUE
        /\ idx' = 1
        /\ loss' = 0
        /\ pc' = IF o = "calculate_loss" THEN "objectives" ELSE "step"
    /\ UNCHANGED <<objectives, constraints, components, err, result, trace>>
    /\ UNCHANGED bvars

\* one iteration of the loop of Problem.step
StepComponent ==
    /\ pc = "step"
    /\ idx <= Len(components)
    /\ LET component == components[idx]
           r == ComponentCall(component, input_dict)
           output_dict == AsDict(component.name, r.isTensor, r.tensor, r.dict)
       IN
       /\ trace' = Append(trace, [kind |-> "component", index |-> idx,
                                  name |-> component.name,
                                  dict |-> input_dict, value |-> 0])
       /\ IF r.raised
          THEN /\ pc' = "failed"
               /\ err' = KeyError(r.key, "step")
               /\ UNCHANGED <<input_dict, aliased, idx>>
          ELSE IF ~check_name_collision_dicts(input_dict, output_dict)
          THEN /\ pc' = "failed"
               /\ err' = AssertionError(NameCollisionMsg, "step")
               /\ UNCHANGED <<input_dict, aliased, idx>>
          ELSE /\ input_dict' = Merge(input_dict, output_dict)
               /\ aliased' = FALSE
               /\ idx' = idx + 1
               /\ UNCHANGED <<pc, err>>
    /\ UNCHANGED <<objectives, constraints, components, op, data, loss, result>>
    /\ UNCHANGED bvars

\* the loop of Problem.step is exhausted: return input_dict
StepReturn ==
    /\ pc = "step"
    /\ idx > Len(components)
    /\ IF op = "step"
       THEN /\ pc' = "done"
            /\ result' = input_dict
            /\ UNCHANGED <<idx, loss>>
       ELSE /\ pc' = "objectives"
            /\ idx' = 1
            /\ loss' = 0
            /\ UNCHANGED result
    /\ UNCHANGED <<objectives, constraints, components, op, data, input_dict,
                   aliased, err, trace>>
    /\ UNCHANGED bvars

\* one iteration of either loop of Problem.calculate_loss over the list terms
LossTerm(kind, terms) ==
    /\ idx <= Len(terms)
    /\ LET term == terms[idx]
           r == ObjectiveCall(term, input_dict)
           output_dict == AsDict(term.name, TRUE, r.value, EmptyDict)
       IN
       /\ trace' = Append(trace, [kind |-> kind, index |-> idx,
                                  name |-> term.name,
                                  dict |-> input_dict, value |-> r.value])
       /\ IF r.raised
          THEN /\ pc' = "failed"
               /\ err' = KeyError(r.key, "calculate_loss")
               /\ UNCHANGED <<input_dict, aliased, idx, loss>>
          ELSE IF ~check_name_collision_dicts(input_dict, output_dict)
          THEN /\ pc' = "failed"
               /\ err' = AssertionError(NameCollisionMsg, "calculate_loss")
               /\ UNCHANGED <<input_dict, aliased, idx, loss>>
          ELSE /\ input_dict' = Merge(input_dict, output_dict)
               /\ aliased' = FALSE
               /\ loss' = AddLoss(loss, output_dict, term.name)
               /\ idx' = idx + 1
               /\ UNCHANGED <<pc, err>>
    /\ UNCHANGED <<objectives, constraints, components, op, data, result>>

\* the objectives loop running over the list backwards
LossObjectiveReversed ==
    /\ pc = "objectives"
    /\ LossTerm("objective", [j \in 1..Len(objectives) |->
                                 objectives[Len(objectives) + 1 - j]])
    /\ UNCHANGED bvars

LossObjective ==
    /\ pc = "objectives"
    /\ LossTerm("objective", objectives)
    /\ UNCHANGED bvars

ObjectivesDone ==
    /\ pc = "objectives"
    /\ idx > Len(objectives)
    /\ pc' = "constraints"
    /\ idx' = 1
    /\ UNCHANGED <<objectives, constraints, components, op, data, input_dict,
                   aliased, loss, err, result, trace>>
    /\ UNCHANGED bvars

LossConstraint ==
    /\ pc = "constraints"
    /\ LossTerm("constraint", constraints)
    /\ UNCHANGED bvars

\* input_dict['loss'] = loss; return input_dict
LossReturn ==
    /\ pc = "constraints"
    /\ idx > Len(constraints)
    /\ input_dict' = SetItem(input_dict, "loss", loss)
    /\ data' = IF aliased THEN SetItem(data, "loss", loss) ELSE data
    /\ IF op = "calculate_loss"
       THEN pc' = "done" /\ result' = input_dict'
       ELSE pc' = "prefix" /\ result' = result
    /\ UNCHANGED <<objectives, constraints, components, op, aliased, idx, loss,
                   err, trace>>
    /\ UNCHANGED bvars

\* the return statement of Problem.forward
ForwardReturn ==
    /\ pc = "prefix"
    /\ IF "name" \in DOMAIN data
       THEN /\ pc' = "done"
            /\ result' = PrefixDict(data["name"], input_dict)
            /\ err' = err
       ELSE /\ pc' = "failed"
            /\ err' = KeyError("name", "forward")
            /\ result' = result
    /\ UNCHANGED <<objectives, constraints, components, op, data, input_dict,
                   aliased, idx, loss, trace>>
    /\ UNCHANGED bvars

\* no batching call is in progress
BatchIdle ==
    /\ x = <<>>
    /\ steps = 0
    /\ mh = FALSE
    /\ batched = <<>>
    /\ bpc = "idle"
    /\ layout = <<>>
    /\ ds = None
    /\ args = None
    /\ out = None

Init == ProblemInit /\ BatchIdle

Next ==
    \/ Construct
    \/ Call
    \/ StepComponent
    \/ StepReturn
    \/ LossObjective
    \/ ObjectivesDone
    \/ LossConstraint
    \/ LossReturn
    \/ ForwardReturn

Spec == Init /\ [][Next]_vars

\* ------------------------------------------------------- properties
\* output keys of a component, whatever it returns
OutKeys(c) == IF c.kind = "tensor" THEN {c.name} ELSE c.output_keys

IsTerm(e) == e.kind # "component"

IsComponent(e) == e.kind = "component"

\* the calls made to components, and to loss terms, in the order made
CompTrace == SelectSeq(trace, IsComponent)

TermTrace == SelectSeq(trace, IsTerm)

AllTerms == objectives \o constraints

\* Problem.step has returned normally
StepSucceeded ==
    /\ op \in {"forward", "step"}
    /\ \/ pc \in {"objectives", "constraints", "prefix", "done"}
       \/ pc = "failed" /\ err.where # "step"

\* Problem.calculate_loss has returned normally
LossSucceeded ==
    /\ op \in {"forward", "calculate_loss"}
    /\ \/ pc \in {"prefix", "done"}
       \/ pc = "failed" /\ err.where = "forward"

\* the component about to be invoked returns keys the dictionary already has
StepCollision ==
    /\ pc = "step"
    /\ idx <= Len(components)
    /\ LET r == ComponentCall(components[idx], input_dict) IN
       /\ ~r.raised
       /\ DOMAIN AsDict(components[idx].name, r.isTensor, r.tensor, r.dict)
              \cap DOMAIN input_dict # {}

C1Step ==
    /\ StepCollision =>
        /\ pc' = "failed"
        /\ err' = AssertionError(NameCollisionMsg, "step")
        /\ input_dict' = input_dict
        /\ result' = None
        /\ TermTrace' = <<>>
    /\ (pc = "failed" /\ err.where = "step") => FALSE

\* C1: when a component's output has a key the current dictionary already
\* holds, step fails with the name-collision assertion and the dictionary is
\* not merged; nothing runs after that failure, so no objective or constraint
\* is evaluated and nothing is returned.
C1_CollisionInStepIsFatal == [][C1Step]_vars

C1_Witness ==
    /\ op = "forward"
    /\ pc = "failed"
    /\ err = AssertionError(NameCollisionMsg, "step")
    /\ idx = 2
    /\ OutKeys(components[2]) \cap OutKeys(components[1]) # {}

\* two terms of objectives + constraints share a name
HasDuplicateNames ==
    \E i, j \in 1..Len(AllTerms) : i # j /\ AllTerms[i].name = AllTerms[j].name

\* C2: a Problem whose objectives and constraints, taken together, hold two
\* terms of one name fails at construction, before any call; one whose names
\* are pairwise distinct is constructed.
C2_DuplicateNamesFailConstruction ==
    pc # "new" =>
        /\ HasDuplicateNames =>
            /\ pc = "failed"
            /\ err = AssertionError(UniqueNamesMsg, "__init__")
            /\ op = ""
            /\ trace = <<>>
            /\ result = None
        /\ ~HasDuplicateNames => err.where # "__init__"

C2_Witness ==
    /\ pc = "failed"
    /\ err = AssertionError(UniqueNamesMsg, "__init__")
    /\ Len(objectives) = 1
    /\ Len(constraints) = 1

\* C3: in a successful step every component is invoked exactly once, in list
\* order, the j-th on a dictionary holding every entry of the input and every
\* output key of components 1..j-1, and no output key of components j, j+1, ...
C3_ComponentsInOrderOnAccumulatedDict ==
    StepSucceeded =>
        /\ Len(CompTrace) = Len(components)
        /\ \A j \in 1..Len(components) :
            /\ CompTrace[j].index = j
            /\ CompTrace[j].name = components[j].name
            /\ \A k \in DOMAIN data :
                k \in DOMAIN CompTrace[j].dict /\ CompTrace[j].dict[k] = data[k]
            /\ \A h \in 1..(j - 1) :
                OutKeys(components[h]) \subseteq DOMAIN CompTrace[j].dict
            /\ \A h \in j..Len(components) :
                OutKeys(components[h]) \cap DOMAIN CompTrace[j].dict = {}

C3_Witness ==
    /\ op = "step"
    /\ pc = "done"
    /\ Len(components) = 2
    /\ result # data

\* C4: in a forward pass no term is evaluated before every component has been
\* invoked; a successful pass evaluates every objective once in list order,
\* then every constraint once in list order, each against a dictionary that
\* holds the named result of every term evaluated before it.
C4_TermsAfterComponentsInOrder ==
    op = "forward" =>
        /\ \A p \in 1..Len(trace) :
            IsTerm(trace[p]) =>
                /\ p > Len(components)
                /\ \A j \in 1..Len(components) : IsComponent(trace[j])
        /\ pc = "done" =>
            /\ Len(TermTrace) = Len(AllTerms)
            /\ \A j \in 1..Len(AllTerms) :
                /\ TermTrace[j].name = AllTerms[j].name
                /\ TermTrace[j].kind =
                       IF j <= Len(objectives) THEN "objective" ELSE "constraint"
                /\ TermTrace[j].index =
                       IF j <= Len(objectives) THEN j ELSE j - Len(objectives)
                /\ \A h \in 1..(j - 1) :
                    /\ AllTerms[h].name \in DOMAIN TermTrace[j].dict
                    /\ TermTrace[j].dict[AllTerms[h].name] = TermTrace[h].value

C4_Witness ==
    /\ op = "forward"
    /\ pc = "done"
    /\ Len(components) = 2
    /\ Len(objectives) = 2
    /\ Len(constraints) = 1

\* C5: after a successful calculate_loss the entry "loss" is the sum, over
\* every objective and every constraint, each counted once, of weight times
\* the term's value on the dictionary it was evaluated on; 0 without terms.
C5_LossIsSumOfWeightedTerms ==
    LossSucceeded =>
        /\ Len(TermTrace) = Len(AllTerms)
        /\ input_dict["loss"] =
              SumSeq([j \in 1..Len(AllTerms) |->
                         AllTerms[j].weight * LossFn(AllTerms[j], TermTrace[j].dict)])
        /\ AllTerms = <<>> => input_dict["loss"] = 0

C5_Witness ==
    /\ LossSucceeded
    /\ Len(objectives) = 2
    /\ Len(constraints) = 1
    /\ \A j \in 1..3 : AllTerms[j].weight * TermTrace[j].value # 0

\* calculate_loss is inside its loops: every term called so far was merged
LossRunning == pc \in {"objectives", "constraints"}

Range(f) == {f[j] : j \in DOMAIN f}

\* C6 as stated: the entry under a term's name is the unweighted value, so
\* that <<TermA, TermB>> (weight 2 value 3, then weight 1 value 3*a) totals 15.
C6_Original_UnweightedEntry ==
    /\ LossRunning =>
        \A j \in 1..Len(TermTrace) :
            input_dict[TermTrace[j].name] = LossFn(AllTerms[j], TermTrace[j].dict)
    /\ (LossSucceeded /\ objectives = <<TermA, TermB>> /\ constraints = <<>>) =>
        input_dict["loss"] = 15

\* C6 (amended): each term adds weight times its unweighted value to the
\* total, and the entry under the term's name holds that same weighted value,
\* which later terms read: <<TermA, TermB>> gives a = 6, b = 18 and a total of
\* 24, and a term of weight 0 adds nothing and its name maps to 0.
C6_WeightedEntryUnderName ==
    /\ LossRunning =>
        /\ \A j \in 1..Len(TermTrace) :
            /\ input_dict[TermTrace[j].name] =
                   AllTerms[j].weight * LossFn(AllTerms[j], TermTrace[j].dict)
            /\ AllTerms[j].weight = 0 => input_dict[TermTrace[j].name] = 0
        /\ loss = SumSeq([j \in 1..Len(TermTrace) |->
                             AllTerms[j].weight * LossFn(AllTerms[j], TermTrace[j].dict)])
    /\ (LossSucceeded /\ objectives = <<TermA, TermB>>
            /\ Len(constraints) = 0) =>
        /\ input_dict["a"] = 6
        /\ input_dict["b"] = 18
        /\ input_dict["loss"] = 24

C6_Witness ==
    /\ pc = "constraints"
    /\ objectives = <<TermA, TermB>>
    /\ constraints = <<TermX>>
    /\ idx = 2
    /\ LossFn(TermX, TermTrace[3].dict) # 0
    /\ input_dict["x0"] = 0
    /\ loss = 24

\* the term about to be evaluated needs a key the dictionary lacks
MissingKeyOf(terms) ==
    IF idx <= Len(terms)
    THEN FirstMissing(terms[idx].variable_names, input_dict)
    ELSE ""

TermMissingKey ==
    IF pc = "objectives" THEN MissingKeyOf(objectives)
    ELSE IF pc = "constraints" THEN MissingKeyOf(constraints)
    ELSE ""

\* C7 as stated: the missing-key error identifies the term's name and the
\* missing key, and no loss is returned.
C7_Original_ErrorNamesTermAndKey ==
    (pc = "failed" /\ err.type = "KeyError" /\ err.where = "calculate_loss") =>
        LET e == trace[Len(trace)] IN
        /\ e.name \in Range(err.args)
        /\ \E k \in Range(err.args) : k \notin DOMAIN e.dict
        /\ result = None

C7Step ==
    /\ TermMissingKey # "" =>
        /\ pc' = "failed"
        /\ err' = KeyError(TermMissingKey, "calculate_loss")
        /\ result' = None
        /\ input_dict' = input_dict
        /\ data' = data
    /\ (pc = "failed" /\ err.where = "calculate_loss") => FALSE

\* C7 (amended): when a loss term needs a key that is absent at the moment it
\* is evaluated, evaluation fails with a KeyError that identifies the missing
\* key and nothing else; nothing runs after it, so no "loss" is written or
\* returned.
C7_MissingKeyRaisesKeyError == [][C7Step]_vars

C7_Witness ==
    /\ pc = "failed"
    /\ err = KeyError("a", "calculate_loss")
    /\ objectives = <<TermB, TermA>>
    /\ components = <<>>
    /\ "loss" \notin DOMAIN input_dict

\* keys a successful forward adds to its input
ProducedKeys ==
    UNION {OutKeys(components[j]) : j \in 1..Len(components)}
        \cup {AllTerms[j].name : j \in 1..Len(AllTerms)}
        \cup {"loss"}

\* C8 as stated: the returned keys are t_k for exactly the component output
\* keys, the term names and "loss".
C8_Original_OnlyProducedKeys ==
    (op = "forward" /\ pc = "done") =>
        DOMAIN result = {data["name"] \o "_" \o k : k \in ProducedKeys}

\* C8 (amended): the returned keys are t_k for exactly the keys of the input
\* dictionary ("name" among them), the component output keys, the term names
\* and "loss".
C8_PrefixedInputAndProducedKeys ==
    (op = "forward" /\ pc = "done") =>
        /\ DOMAIN result =
              {data["name"] \o "_" \o k : k \in DOMAIN data \cup ProducedKeys}
        /\ \A k \in DOMAIN input_dict :
              /\ data["name"] \o "_" \o k \in DOMAIN result
              /\ result[data["name"] \o "_" \o k] = input_dict[k]

C8_Witness ==
    /\ op = "forward"
    /\ pc = "done"
    /\ Len(components) = 2
    /\ Len(AllTerms) = 3
    /\ data["name"] = "train"

C9Step ==
    pc \in {"step", "objectives", "constraints"} =>
        \A k \in DOMAIN input_dict :
            k \in DOMAIN input_dict' /\ input_dict'[k] = input_dict[k]

\* C9: during a call no key already present in the flowing dictionary gets a
\* new value, the final write of "loss" included.
C9_NoKeyOverwritten == [][C9Step]_vars

\* ------------------------------------------------------- batching
\* longest series handed to the batching functions
MaxLen == 4

\* a row of the series: one value per feature column
RowPool == [1..2 -> {0, 1}]

SeriesPool == UNION {[1..n -> RowPool] : n \in 1..MaxLen}

\* number of feature columns of a series
NumCols(s) == IF s = <<>> THEN 0 ELSE Len(s[1])

\* one window of Tensor.unfold(0, size, step): the rows start+1..start+size,
\* the window axis appended last, so the layout is [column][position]
Window(s, start, size) ==
    [d \in 1..NumCols(s) |-> [j \in 1..size |-> s[start + j][d]]]

\* Tensor.unfold(0, size, step): windows are taken from the offsets
\* 0, step, 2*step, ... while a whole window still fits
RECURSIVE UnfoldFrom(_, _, _, _)
UnfoldFrom(s, size, step, start) ==
    IF start + size > Len(s)
    THEN <<>>
    ELSE <<Window(s, start, size)>> \o UnfoldFrom(s, size, step, start + step)

\* x.unfold(0, size, step) raises when size exceeds the length of x
Unfold(s, size, step) ==
    IF size > Len(s)
    THEN [raised |-> TRUE, value |-> <<>>]
    ELSE [raised |-> FALSE, value |-> UnfoldFrom(s, size, step, 0)]

\* batching that ignores mh and always strides by the horizon
batch_tensor_chunked_only(s, n, moving) == Unfold(s, n, n)

\* batch_tensor(x, steps, mh)
batch_tensor(s, n, moving) == Unfold(s, n, IF moving THEN 1 ELSE n)

BatchInit ==
    /\ x \in SeriesPool
    /\ steps \in 1..(MaxLen + 1)
    /\ mh \in BOOLEAN
    /\ batched = <<>>
    /\ bpc = "start"
    /\ layout = <<>>
    /\ ds = None
    /\ args = None
    /\ out = None

\* the caller evaluates batch_tensor(x, steps, mh)
BatchTensor ==
    /\ bpc = "start"
    /\ LET r == batch_tensor(x, steps, mh) IN
       IF r.raised
       THEN bpc' = "error" /\ batched' = batched
       ELSE bpc' = "batched" /\ batched' = r.value
    /\ UNCHANGED <<x, steps, mh, layout, ds, args, out>>
    /\ UNCHANGED pvars

BatchNext ==
    \/ BatchTensor

InitBatch == ProblemInit /\ BatchInit

SpecBatch == InitBatch /\ [][BatchNext]_vars

\* C10: for 1 <= N <= L and stride s = 1 (mh) or N (otherwise), batch_tensor
\* returns floor((L - N)/s) + 1 windows of length N, and element j of window i
\* is row i*s + j of x.
C10_WindowCountAndContent ==
    (bpc # "start" /\ 1 <= steps /\ steps <= Len(x)) =>
        LET s == IF mh THEN 1 ELSE steps
            L == Len(x)
        IN
        /\ bpc = "batched"
        /\ Len(batched) = ((L - steps) \div s) + 1
        /\ \A i \in 0..(Len(batched) - 1) : \A d \in 1..NumCols(x) :
            /\ Len(batched[i + 1][d]) = steps
            /\ \A j \in 0..(steps - 1) :
                batched[i + 1][d][j + 1] = x[i * s + j + 1][d]

C10_Witness ==
    /\ bpc = "batched"
    /\ mh
    /\ Len(x) = 4
    /\ steps = 2
    /\ Len(batched) = 3
    /\ batched[1] # batched[2]

\* ------------------------------------------------------- deepmpc batching
\* ndarray.transpose(1, 0, 2) of an array of shape (a, b, dim), a, b >= 1
Transpose102(t) ==
    [j \in 1..Len(t[1]) |-> [i \in 1..Len(t) |-> t[i][j]]]

\* data[lo:hi] for 0 <= lo, on a sequence of rows
Slice(s, lo, hi) ==
    LET h == IF hi > Len(s) THEN Len(s) ELSE hi IN
    IF h <= lo THEN <<>> ELSE SubSeq(s, lo + 1, h)

\* batch_mh_data(data, nsteps): windows from the offsets range(0, end_step);
\* transposing the empty array raises
batch_mh_data(s, n) ==
    LET end_step == Len(s) - n
        chunks == [k \in 1..(IF end_step > 0 THEN end_step ELSE 0) |->
                      Slice(s, k - 1, k - 1 + n)]
    IN IF chunks = <<>>
       THEN [raised |-> TRUE, value |-> <<>>]
       ELSE [raised |-> FALSE, value |-> Transpose102(chunks)]

\* unbatch_mh_data(data): the first step of every sample, then
\* reshape(-1, 1, dim)
unbatch_mh_data(t) ==
    LET data_unmove == [k \in 1..Len(t[1]) |-> t[1][k]] IN
    [k \in 1..Len(data_unmove) |-> <<data_unmove[k]>>]

\* batch_data(data, nsteps): np.split of the series without its leftover rows
\* into nsplits equal chunks; np.split into 0 sections raises
batch_data(s, n) ==
    LET nsplits == Len(s) \div n
        leftover == Len(s) % n
        kept == Slice(s, 0, Len(s) - leftover)
        chunks == [w \in 1..nsplits |-> Slice(kept, (w - 1) * n, w * n)]
    IN IF nsplits = 0
       THEN [raised |-> TRUE, value |-> <<>>]
       ELSE [raised |-> FALSE, value |-> Transpose102(chunks)]

\* unbatch_data(data): transpose(1, 0, 2).reshape(-1, 1, dim)
unbatch_data(t) ==
    LET byChunk == Transpose102(t)
        n == Len(t)
    IN [r \in 1..(Len(byChunk) * n) |->
           <<byChunk[((r - 1) \div n) + 1][((r - 1) % n) + 1]>>]

DeepInit ==
    /\ x \in SeriesPool
    /\ steps \in 1..(MaxLen + 1)
    /\ mh \in BOOLEAN
    /\ batched = <<>>
    /\ bpc = "start"
    /\ layout = <<>>
    /\ ds = None
    /\ args = None
    /\ out = None

\* the caller batches x as Dataset.make_nstep does for its batch_type
DeepBatch ==
    /\ bpc = "start"
    /\ LET r == IF mh THEN batch_mh_data(x, steps) ELSE batch_data(x, steps) IN
       IF r.raised
       THEN bpc' = "error" /\ batched' = batched
       ELSE bpc' = "batched" /\ batched' = r.value
    /\ UNCHANGED <<x, steps, mh, layout, ds, args, out>>
    /\ UNCHANGED pvars

\* the caller unbatches what it batched, as Dataset.make_loop does
DeepUnbatch ==
    /\ bpc = "batched"
    /\ out' = IF mh THEN unbatch_mh_data(batched) ELSE unbatch_data(batched)
    /\ bpc' = "unbatched"
    /\ UNCHANGED <<x, steps, mh, batched, layout, ds, args>>
    /\ UNCHANGED pvars

DeepNext ==
    \/ DeepBatch
    \/ DeepUnbatch

InitDeep == ProblemInit /\ DeepInit

SpecDeep == InitDeep /\ [][DeepNext]_vars

\* C11: moving-horizon batching of L rows with horizon N yields L-N+1 samples,
\* chunked batching floor(L/N) samples, each of N steps.
C11_WindowCounts ==
    bpc \in {"batched", "unbatched"} =>
        /\ Len(batched) = steps
        /\ \A j \in 1..Len(batched) :
            Len(batched[j]) = IF mh THEN Len(x) - steps + 1 ELSE Len(x) \div steps

\* the series with a singleton sample axis
WithSampleAxis(s) == [r \in 1..Len(s) |-> <<s[r]>>]

\* C19: unbatching what moving-horizon batching produced gives back all L rows
\* of x in order, for every L; unbatching what chunked batching produced gives
\* back all L rows whenever N divides L.
C19_DeepRoundTrip ==
    bpc = "unbatched" =>
        /\ mh => out = WithSampleAxis(x)
        /\ (~mh /\ Len(x) % steps = 0) => out = WithSampleAxis(x)

\* ------------------------------------------------------- SequenceDataset
\* The data mapping handed to SequenceDataset: its keys in insertion order,
\* each with the columns of x that make up its (T, Dk) array.
LayoutPool == {
    <<[k |-> "Y", cols |-> <<1, 2>>]>>,
    <<[k |-> "Y", cols |-> <<1>>], [k |-> "U", cols |-> <<2>>]>>,
    <<[k |-> "U", cols |-> <<2>>], [k |-> "Y", cols |-> <<1>>]>>
}

\* data[k] for the k-th entry of the layout
DataArray(entry, s) ==
    [t \in 1..Len(s) |-> [c \in 1..Len(entry.cols) |-> s[t][entry.cols[c]]]]

\* the single variable Y with the values 0..11
ExampleSeries == [t \in 1..12 |-> <<t - 1>>]

ExampleLayout == <<[k |-> "Y", cols |-> <<1>>]>>

RECURSIVE ConcatAll(_)
ConcatAll(ss) == IF ss = <<>> THEN <<>> ELSE Head(ss) \o ConcatAll(Tail(ss))

\* torch.cat([... for v in data.values()], dim=1)
CatColumns(lay, s) ==
    [t \in 1..Len(s) |-> ConcatAll([e \in 1..Len(lay) |-> DataArray(lay[e], s)[t]])]

\* column ranges that all start at column 0
VSlicesFromZero(lay, i) ==
    [e \in 1..Len(lay) |-> [k |-> lay[e].k, start |-> 0, stop |-> Len(lay[e].cols)]]

\* the loop that fills self._vslices: slice(i, i + v[1], 1); i += v[1]
RECURSIVE VSlices(_, _)
VSlices(lay, i) ==
    IF lay = <<>>
    THEN <<>>
    ELSE <<[k |-> Head(lay).k, start |-> i, stop |-> i + Len(Head(lay).cols)]>>
             \o VSlices(Tail(lay), i + Len(Head(lay).cols))

\* self._vslices[k]
VSliceOf(d, k) ==
    LET e == CHOOSE j \in 1..Len(d.vslices) : d.vslices[j].k = k
    IN d.vslices[e]

\* row[slice(start, stop, 1)]
ColSlice(row, sl) == Slice(row, sl.start, sl.stop)

\* Tensor.permute(0, 2, 1) of a tensor of shape (W, D, N)
Permute021(t) ==
    [w \in 1..Len(t) |->
        [j \in 1..Len(t[w][1]) |-> [d \in 1..Len(t[w]) |-> t[w][d][j]]]]

\* SequenceDataset.__init__
SequenceDataset(lay, s, nsteps, moving_horizon, name) ==
    LET full_data == CatColumns(lay, s)
        r == batch_tensor(full_data, nsteps, moving_horizon)
    IN IF r.raised
       THEN [raised |-> TRUE, self |-> None]
       ELSE [raised |-> FALSE,
             self |-> [name |-> name,
                       full_data |-> full_data,
                       variables |-> [e \in 1..Len(lay) |-> lay[e].k],
                       vslices |-> VSlices(lay, 0),
                       nsteps |-> nsteps,
                       nsim |-> Len(full_data),
                       batched_data |-> Permute021(r.value)]]

\* SequenceDataset.__len__
DatasetLen(d) == Len(d.batched_data) - 1

\* self.batched_data[w, :, self._vslices[k]], w counted from 0
WindowOf(d, w, k) ==
    [j \in 1..Len(d.batched_data[w + 1]) |->
        ColSlice(d.batched_data[w + 1][j], VSliceOf(d, k))]

Keys(d, suffix) == {d.variables[e] \o suffix : e \in 1..Len(d.variables)}

VarOfKey(d, key, suffix) ==
    CHOOSE k \in {d.variables[e] : e \in 1..Len(d.variables)} : k \o suffix = key

\* a __getitem__ that pairs the window with itself
GetItemSameWindow(d, i) ==
    IF i + 1 >= Len(d.batched_data)
    THEN [raised |-> TRUE, value |-> None]
    ELSE [raised |-> FALSE,
          value |-> [key \in Keys(d, "p") \cup Keys(d, "f") |->
                        IF key \in Keys(d, "p")
                        THEN WindowOf(d, i, VarOfKey(d, key, "p"))
                        ELSE WindowOf(d, i, VarOfKey(d, key, "f"))]]

\* SequenceDataset.__getitem__ for i >= 0: indexing window i + 1 past the last
\* window raises IndexError
GetItem(d, i) ==
    IF i + 1 >= Len(d.batched_data)
    THEN [raised |-> TRUE, value |-> None]
    ELSE [raised |-> FALSE,
          value |-> [key \in Keys(d, "p") \cup Keys(d, "f") |->
                        IF key \in Keys(d, "p")
                        THEN WindowOf(d, i, VarOfKey(d, key, "p"))
                        ELSE WindowOf(d, i + 1, VarOfKey(d, key, "f"))]]

\* full_data[lo:hi, self._vslices[k]].unsqueeze(1)
LoopArray(d, lo, hi, k) ==
    LET rows == Slice(d.full_data, lo, hi) IN
    [t \in 1..Len(rows) |-> <<ColSlice(rows[t], VSliceOf(d, k))>>]

\* an open-loop sequence whose future starts one row, not nsteps rows, later
GetFullSequenceShiftOne(d) ==
    [key \in Keys(d, "p") \cup Keys(d, "f") \cup {"name"} |->
        IF key = "name" THEN "loop_" \o d.name
        ELSE IF key \in Keys(d, "p")
        THEN LoopArray(d, 0, d.nsim - d.nsteps, VarOfKey(d, key, "p"))
        ELSE LoopArray(d, 1, d.nsim - d.nsteps + 1, VarOfKey(d, key, "f"))]

\* SequenceDataset.get_full_sequence: full_data[:-nsteps] and
\* full_data[nsteps:], nsteps >= 1
GetFullSequence(d) ==
    [key \in Keys(d, "p") \cup Keys(d, "f") \cup {"name"} |->
        IF key = "name" THEN "loop_" \o d.name
        ELSE IF key \in Keys(d, "p")
        THEN LoopArray(d, 0, d.nsim - d.nsteps, VarOfKey(d, key, "p"))
        ELSE LoopArray(d, d.nsteps, d.nsim, VarOfKey(d, key, "f"))]

\* default_collate on a list of item dictionaries: one stacked tensor per key
DefaultCollate(batch) ==
    [key \in DOMAIN batch[1] |-> [b \in 1..Len(batch) |-> batch[b][key]]]

\* Tensor.transpose(0, 1)
Transpose01(t) == Transpose102(t)

\* a collate that keeps the (batch, time, feature) layout
CollateNoTranspose(d, batch) ==
    LET c == DefaultCollate(batch) IN
    [key \in DOMAIN c \cup {"name"} |->
        IF key = "name" THEN "nstep_" \o d.name ELSE c[key]]

\* SequenceDataset.collate_fn
CollateFn(d, batch) ==
    LET c == DefaultCollate(batch) IN
    [key \in DOMAIN c \cup {"name"} |->
        IF key = "name" THEN "nstep_" \o d.name ELSE Transpose01(c[key])]

SeqInit ==
    /\ \/ /\ x \in SeriesPool
          /\ layout \in LayoutPool
          /\ steps \in 1..(MaxLen + 1)
       \/ /\ x = ExampleSeries
          /\ layout = ExampleLayout
          /\ steps = 3
    /\ mh \in BOOLEAN
    /\ batched = <<>>
    /\ bpc = "start"
    /\ ds = None
    /\ args = None
    /\ out = None

\* the caller constructs SequenceDataset(data, nsteps, moving_horizon, "train")
SeqConstruct ==
    /\ bpc = "start"
    /\ LET r == SequenceDataset(layout, x, steps, mh, "train") IN
       IF r.raised
       THEN bpc' = "error" /\ ds' = ds
       ELSE bpc' = "built" /\ ds' = r.self
    /\ UNCHANGED <<x, steps, mh, batched, layout, args, out>>
    /\ UNCHANGED pvars

\* the caller evaluates dataset[i]
SeqGetItem ==
    /\ bpc = "built"
    /\ \E i \in 0..Len(ds.batched_data) :
        LET r == GetItem(ds, i) IN
        /\ args' = [i |-> i]
        /\ IF r.raised
           THEN bpc' = "indexerror" /\ out' = out
           ELSE bpc' = "item" /\ out' = r.value
    /\ UNCHANGED <<x, steps, mh, batched, layout, ds>>
    /\ UNCHANGED pvars

\* the caller evaluates dataset.get_full_sequence()
SeqGetFullSequence ==
    /\ bpc = "built"
    /\ bpc' = "loop"
    /\ out' = GetFullSequence(ds)
    /\ UNCHANGED <<x, steps, mh, batched, layout, ds, args>>
    /\ UNCHANGED pvars

\* a DataLoader hands the items first .. first + B - 1 to dataset.collate_fn
SeqCollate ==
    /\ bpc = "built"
    /\ \E first \in 0..(DatasetLen(ds) - 1) :
       \E B \in 1..(DatasetLen(ds) - first) :
        /\ args' = [first |-> first, B |-> B]
        /\ out' = CollateFn(ds, [b \in 1..B |-> GetItem(ds, first + b - 1).value])
        /\ bpc' = "collated"
    /\ UNCHANGED <<x, steps, mh, batched, layout, ds>>
    /\ UNCHANGED pvars

SeqNext ==
    \/ SeqConstruct
    \/ SeqGetItem
    \/ SeqGetFullSequence
    \/ SeqCollate

InitSeq == ProblemInit /\ SeqInit

SpecSeq == InitSeq /\ [][SeqNext]_vars

\* ------------------------------------------ SequenceDataset: properties
\* the raw rows [start, start + nsteps) of the layout's e-th variable
RawWindow(e, start) == Slice(DataArray(layout[e], x), start, start + steps)

Stride == IF mh THEN 1 ELSE steps

NumWindows == IF mh THEN Len(x) - steps + 1 ELSE Len(x) \div steps

DatasetBuilt == bpc \in {"built", "item", "indexerror", "loop", "collated"}

\* C12: a SequenceDataset with W windows has length W - 1; item i, for
\* 0 <= i < W - 1, holds window i under k+"p" and window i + 1 under k+"f" for
\* every variable k, and no index from W - 1 on is valid.  The series
\* Y = 0..11 with nsteps 3 and moving horizon has 10 windows and length 9,
\* item 0 is Yp = [0,1,2], Yf = [1,2,3], and no item lies beyond index 8.
C12_LengthAndItems ==
    /\ DatasetBuilt =>
          /\ Len(ds.batched_data) = NumWindows
          /\ DatasetLen(ds) = NumWindows - 1
    /\ bpc = "item" =>
          /\ args.i < NumWindows - 1
          /\ \A e \in 1..Len(layout) :
                /\ out[layout[e].k \o "p"] = RawWindow(e, args.i * Stride)
                /\ out[layout[e].k \o "f"] = RawWindow(e, (args.i + 1) * Stride)
    /\ bpc = "indexerror" => args.i >= NumWindows - 1
    /\ (DatasetBuilt /\ x = ExampleSeries /\ mh) =>
          /\ Len(ds.batched_data) = 10
          /\ DatasetLen(ds) = 9
          /\ bpc = "item" => args.i <= 8
          /\ (bpc = "item" /\ args.i = 0) =>
                /\ out["Yp"] = <<<<0>>, <<1>>, <<2>>>>
                /\ out["Yf"] = <<<<1>>, <<2>>, <<3>>>>

C12_Witness ==
    /\ bpc = "item"
    /\ x = ExampleSeries
    /\ mh
    /\ args.i = 8
    /\ out["Yp"] = <<<<8>>, <<9>>, <<10>>>>
    /\ out["Yf"] = <<<<9>>, <<10>>, <<11>>>>

\* C13: in every item, in both modes, the k+"f" window of every variable k
\* holds the raw rows that start nsteps after the first row of the k+"p"
\* window, so that the two neither overlap nor leave a gap.
C13_FutureFollowsPast ==
    bpc = "item" =>
        \A e \in 1..Len(layout) :
            /\ out[layout[e].k \o "p"] = RawWindow(e, args.i * Stride)
            /\ out[layout[e].k \o "f"] = RawWindow(e, args.i * Stride + steps)

\* C14: for 1 <= nsteps < nsim, get_full_sequence returns for every variable
\* k the raw rows [0, nsim - nsteps) of k's own columns under k+"p" and the
\* raw rows [nsteps, nsim) under k+"f", each row wrapped in a singleton sample
\* axis; both have nsim - nsteps rows, and row t of k+"f" is the raw row
\* nsteps after row t of k+"p".
C14_FullSequence ==
    (bpc = "loop" /\ steps < Len(x)) =>
        \A e \in 1..Len(layout) :
            LET raw == DataArray(layout[e], x)
                past == out[layout[e].k \o "p"]
                future == out[layout[e].k \o "f"]
            IN /\ Len(past) = Len(x) - steps
               /\ Len(future) = Len(x) - steps
               /\ \A t \in 1..(Len(x) - steps) :
                     /\ past[t] = <<raw[t]>>
                     /\ future[t] = <<raw[t + steps]>>

C14_Witness ==
    /\ bpc = "loop"
    /\ Len(x) = 4
    /\ steps = 2
    /\ Len(layout) = 2
    /\ out["Up"] # out["Uf"]
    /\ out["Up"] # out["Yp"]

\* C16: collate_fn on a batch of B items returns under every variable key a
\* tensor whose entry [t][b] is row t of the window that item b holds under
\* that key, for 0 <= t < nsteps and 0 <= b < B, and under "name" a string
\* built from the dataset's name tag.
C16_CollateLayout ==
    bpc = "collated" =>
        /\ out["name"] = "nstep_" \o ds.name
        /\ \A e \in 1..Len(layout) :
              LET past == out[layout[e].k \o "p"]
                  future == out[layout[e].k \o "f"]
              IN /\ Len(past) = steps
                 /\ Len(future) = steps
                 /\ \A t \in 1..steps :
                       /\ Len(past[t]) = args.B
                       /\ Len(future[t]) = args.B
                       /\ \A b \in 1..args.B :
                             /\ past[t][b] =
                                  RawWindow(e, (args.first + b - 1) * Stride)[t]
                             /\ future[t][b] =
                                  RawWindow(e, (args.first + b) * Stride)[t]

C16_Witness ==
    /\ bpc = "collated"
    /\ args.B = 2
    /\ steps = 1
    /\ Len(out["Yp"]) = 1
    /\ Len(out["Yp"][1]) = 2
    /\ out["Yp"][1][1] # out["Yp"][1][2]

\* C17: constructing a SequenceDataset with nsteps >= nsim fails; no dataset
\* of length zero and no empty open-loop array is ever produced.
C17_ShortSeriesFailsConstruction ==
    /\ steps >= Len(x) => bpc \in {"start", "error"}
    /\ DatasetBuilt => DatasetLen(ds) > 0
    /\ bpc = "loop" =>
          \A e \in 1..Len(layout) :
              /\ out[layout[e].k \o "p"] # <<>>
              /\ out[layout[e].k \o "f"] # <<>>

\* --------------------------------------------- get_sequence_dataloaders
MaxSim == 6

MaxLoaderSteps == 2

\* the value of data after normalize_data, before split_data
LoaderSeriesPool == UNION {[1..n -> RowPool] : n \in 1..MaxSim}

\* a default split whose dev part starts one row early
split_data_overlapping(s) ==
    LET nsim == Len(s)
        split_len == nsim \div 3
    IN [train |-> Slice(s, 0, split_len),
        dev |-> Slice(s, IF split_len > 0 THEN split_len - 1 ELSE 0, split_len * 2),
        test |-> Slice(s, split_len * 2, nsim)]

\* split_data with split_ratio = None: thirds of nsim, the remainder to test
split_data(s) ==
    LET nsim == Len(s)
        split_len == nsim \div 3
    IN [train |-> Slice(s, 0, split_len),
        dev |-> Slice(s, split_len, split_len * 2),
        test |-> Slice(s, split_len * 2, nsim)]

\* torch.utils.data.DataLoader(dataset, batch_size=len(dataset), ...): a batch
\* size that is not positive raises ValueError
DataLoader(d) ==
    IF DatasetLen(d) <= 0
    THEN [raised |-> TRUE, value |-> None]
    ELSE [raised |-> FALSE,
          value |-> [dataset |-> d, batch_size |-> DatasetLen(d)]]

\* get_sequence_dataloaders after normalize_data
get_sequence_dataloaders(lay, s, nsteps) ==
    LET parts == split_data(s)
        train_data == SequenceDataset(lay, parts.train, nsteps, FALSE, "train")
        dev_data == SequenceDataset(lay, parts.dev, nsteps, FALSE, "dev")
        test_data == SequenceDataset(lay, parts.test, nsteps, FALSE, "test")
        failed == [raised |-> TRUE, nstep_data |-> None, loop_data |-> None]
    IN IF train_data.raised \/ dev_data.raised \/ test_data.raised
       THEN failed
       ELSE LET loops == <<GetFullSequence(train_data.self),
                           GetFullSequence(dev_data.self),
                           GetFullSequence(test_data.self)>>
                train_loader == DataLoader(train_data.self)
                dev_loader == DataLoader(dev_data.self)
                test_loader == DataLoader(test_data.self)
            IN IF train_loader.raised \/ dev_loader.raised \/ test_loader.raised
               THEN failed
               ELSE [raised |-> FALSE,
                     nstep_data |-> <<train_loader.value, dev_loader.value,
                                      test_loader.value>>,
                     loop_data |-> loops]

\* one pass over a full-batch DataLoader: every item, in order, collated
LoaderBatch(loader) ==
    CollateFn(loader.dataset,
              [b \in 1..loader.batch_size |-> GetItem(loader.dataset, b - 1).value])

LoaderInit ==
    /\ x \in LoaderSeriesPool
    /\ layout \in LayoutPool
    /\ steps \in 1..MaxLoaderSteps
    /\ mh = FALSE
    /\ batched = <<>>
    /\ bpc = "start"
    /\ ds = None
    /\ args = None
    /\ out = None

\* the caller evaluates get_sequence_dataloaders(data, nsteps)
Dataloaders ==
    /\ bpc = "start"
    /\ LET r == get_sequence_dataloaders(layout, x, steps) IN
       IF r.raised
       THEN bpc' = "error" /\ UNCHANGED <<ds, out>>
       ELSE /\ bpc' = "loaders"
            /\ ds' = r.nstep_data
            /\ out' = r.loop_data
    /\ UNCHANGED <<x, steps, mh, batched, layout, args>>
    /\ UNCHANGED pvars

\* the caller draws the single batch of one of the three loaders
NextBatch ==
    /\ bpc = "loaders"
    /\ \E which \in 1..3 :
        /\ args' = [which |-> which]
        /\ batched' = LoaderBatch(ds[which])
    /\ bpc' = "batch"
    /\ UNCHANGED <<x, steps, mh, layout, ds, out>>
    /\ UNCHANGED pvars

LoaderNext ==
    \/ Dataloaders
    \/ NextBatch

InitLoaders == ProblemInit /\ LoaderInit

SpecLoaders == InitLoaders /\ [][LoaderNext]_vars

\* C15: for the three datasets that get_sequence_dataloaders builds from one
\* series, the open-loop arrays of a variable concatenated in the order
\* train, dev, test equal the pre-split series cut to the concatenation's
\* length: k+"p" the rows from row 0 on, k+"f" the rows from row nsteps on.
C15_LoopsConcatenateToPrefix ==
    bpc \in {"loaders", "batch"} =>
        \A e \in 1..Len(layout) :
            LET raw == WithSampleAxis(DataArray(layout[e], x))
                past == out[1][layout[e].k \o "p"] \o out[2][layout[e].k \o "p"]
                            \o out[3][layout[e].k \o "p"]
                future == out[1][layout[e].k \o "f"] \o out[2][layout[e].k \o "f"]
                            \o out[3][layout[e].k \o "f"]
            IN /\ past = Slice(raw, 0, Len(past))
               /\ future = Slice(raw, steps, steps + Len(future))

\* ------------------------------------ batch_tensor / unbatch_tensor, 3-D
\* one time step of a (time, batch, feature) series: 2 samples, 1 feature
StepPool == [1..2 -> [1..1 -> {0, 1}]]

Series3Pool == UNION {[1..n -> StepPool] : n \in 1..MaxLen}

\* one window of Tensor.unfold(0, size, step) on a 3-D tensor: the window
\* axis is appended last, so the layout is [sample][feature][position]
Window3(s, start, size) ==
    [b \in 1..Len(s[1]) |->
        [f \in 1..Len(s[1][b]) |-> [j \in 1..size |-> s[start + j][b][f]]]]

RECURSIVE Unfold3From(_, _, _, _)
Unfold3From(s, size, step, start) ==
    IF start + size > Len(s)
    THEN <<>>
    ELSE <<Window3(s, start, size)>> \o Unfold3From(s, size, step, start + step)

\* batch_tensor(x, steps, mh) on a 3-D tensor, shape (W, B, F, N)
batch_tensor3(s, n, moving) ==
    IF n > Len(s)
    THEN [raised |-> TRUE, value |-> <<>>]
    ELSE [raised |-> FALSE,
          value |-> Unfold3From(s, n, IF moving THEN 1 ELSE n, 0)]

\* t[:, :, :, 0]
FirstSteps(t) ==
    [w \in 1..Len(t) |->
        [b \in 1..Len(t[w]) |-> [f \in 1..Len(t[w][b]) |-> t[w][b][f][1]]]]

\* t[-1, :, :, 1:].permute(2, 0, 1)
LastWindowTail(t) ==
    LET last == t[Len(t)]
        n == Len(last[1][1])
    IN [j \in 1..(n - 1) |->
           [b \in 1..Len(last) |-> [f \in 1..Len(last[b]) |-> last[b][f][j + 1]]]]

\* torch.cat(torch.unbind(t, 0), dim=-1).permute(2, 0, 1)
CatWindows(t) ==
    LET joined == [b \in 1..Len(t[1]) |->
                      [f \in 1..Len(t[1][b]) |->
                          ConcatAll([w \in 1..Len(t) |-> t[w][b][f]])]]
    IN [r \in 1..Len(joined[1][1]) |->
           [b \in 1..Len(joined) |-> [f \in 1..Len(joined[b]) |-> joined[b][f][r]]]]

\* an unbatching that keeps only the first step of every moving window
unbatch_tensor_first_steps(t, moving) ==
    IF moving THEN FirstSteps(t) ELSE CatWindows(t)

\* unbatch_tensor(x, mh)
unbatch_tensor(t, moving) ==
    IF moving THEN FirstSteps(t) \o LastWindowTail(t) ELSE CatWindows(t)

RoundTripInit ==
    /\ x \in Series3Pool
    /\ steps \in 1..(MaxLen + 1)
    /\ mh \in BOOLEAN
    /\ batched = <<>>
    /\ bpc = "start"
    /\ layout = <<>>
    /\ ds = None
    /\ args = None
    /\ out = None

\* the caller evaluates batch_tensor(x, steps, mh)
RoundTripBatch ==
    /\ bpc = "start"
    /\ LET r == batch_tensor3(x, steps, mh) IN
       IF r.raised
       THEN bpc' = "error" /\ batched' = batched
       ELSE bpc' = "batched" /\ batched' = r.value
    /\ UNCHANGED <<x, steps, mh, layout, ds, args, out>>
    /\ UNCHANGED pvars

\* the caller evaluates unbatch_tensor(batched, mh)
RoundTripUnbatch ==
    /\ bpc = "batched"
    /\ bpc' = "unbatched"
    /\ out' = unbatch_tensor(batched, mh)
    /\ UNCHANGED <<x, steps, mh, batched, layout, ds, args>>
    /\ UNCHANGED pvars

RoundTripNext ==
    \/ RoundTripBatch
    \/ RoundTripUnbatch

InitRoundTrip == ProblemInit /\ RoundTripInit

SpecRoundTrip == InitRoundTrip /\ [][RoundTripNext]_vars

\* C18: for a 3-D series x of L rows and a horizon N with 1 <= N <= L,
\* unbatching the moving-horizon batching of x gives x back for every L, and
\* unbatching the chunked batching of x gives x back whenever N divides L.
C18_TensorRoundTrip ==
    (bpc = "unbatched" /\ steps <= Len(x)) =>
        /\ mh => out = x
        /\ (~mh /\ Len(x) % steps = 0) => out = x

C18_Witness ==
    /\ bpc = "unbatched"
    /\ mh
    /\ Len(x) = 4
    /\ steps = 3
    /\ x[3] # x[4]
    /\ x[1] # x[2]
    /\ out = x

\* ------------------------------------------ normalize / min_max_denorm
MaxRows == 2

\* the entries of M and of the caller's Mmin and Mmax
ValuePool == 0..2

\* 2-d arrays with two columns of small integers
MatrixPool == UNION {[1..r -> [1..2 -> ValuePool]] : r \in 1..MaxRows}

\* per-column minima or maxima handed in by the caller
StatPool == [1..2 -> ValuePool]

Abs(n) == IF n < 0 THEN -n ELSE n

Sign(n) == IF n < 0 THEN -1 ELSE 1

RECURSIVE GCD(_, _)
GCD(a, b) == IF b = 0 THEN a ELSE GCD(b, a % b)

\* floating-point values: exact rationals n/d in lowest terms, NaN, +-inf and
\* +-(the largest finite float)
Num(n, d) ==
    LET g == GCD(Abs(n), Abs(d)) IN
    [kind |-> "num", n |-> (Sign(d) * n) \div g, d |-> Abs(d) \div g]

NaN == [kind |-> "nan", n |-> 0, d |-> 1]

Inf(sgn) == [kind |-> "inf", n |-> sgn, d |-> 1]

FloatMax(sgn) == [kind |-> "max", n |-> sgn, d |-> 1]

\* a / b in floating point: 0/0 is NaN, a/0 is +-inf
Divide(a, b) ==
    IF b # 0 THEN Num(a, b)
    ELSE IF a = 0 THEN NaN
    ELSE Inf(Sign(a))

\* a nan_to_num that lets every value through
nan_to_num_identity(v) == v

\* np.nan_to_num: NaN becomes 0, +-inf the largest finite float
nan_to_num(v) ==
    IF v.kind = "nan" THEN Num(0, 1)
    ELSE IF v.kind = "inf" THEN FloatMax(v.n)
    ELSE v

\* M.min(axis=0) and M.max(axis=0)
ColMin(m) ==
    [c \in 1..2 |-> CHOOSE v \in {m[r][c] : r \in 1..Len(m)} :
                        \A r \in 1..Len(m) : v <= m[r][c]]

ColMax(m) ==
    [c \in 1..2 |-> CHOOSE v \in {m[r][c] : r \in 1..Len(m)} :
                        \A r \in 1..Len(m) : v >= m[r][c]]

\* Dataset.normalize(M, Mmin, Mmax); stats is None or the caller's Mmin, Mmax
normalize(m, stats) ==
    LET Mmin == IF stats = None THEN ColMin(m) ELSE stats.Mmin
        Mmax == IF stats = None THEN ColMax(m) ELSE stats.Mmax
    IN [M_norm |-> [r \in 1..Len(m) |->
                       [c \in 1..2 |->
                           nan_to_num(Divide(m[r][c] - Mmin[c], Mmax[c] - Mmin[c]))]],
        Mmin |-> Mmin,
        Mmax |-> Mmax]

\* q * range + lo in floating point, q already passed through nan_to_num
MulAdd(q, range, lo) ==
    IF q.kind = "num" THEN Num(q.n * range + lo * q.d, q.d)
    ELSE IF q.kind = "nan" THEN NaN
    ELSE IF range = 0 THEN (IF q.kind = "max" THEN Num(lo, 1) ELSE NaN)
    ELSE IF q.kind = "max" /\ Abs(range) = 1 THEN FloatMax(q.n * range)
    ELSE Inf(q.n * Sign(range))

\* min_max_denorm(M, Mmin, Mmax)
min_max_denorm(m, Mmin, Mmax) ==
    [r \in 1..Len(m) |->
        [c \in 1..2 |-> nan_to_num(MulAdd(m[r][c], Mmax[c] - Mmin[c], Mmin[c]))]]

NormInit ==
    /\ x \in MatrixPool
    /\ args \in {None} \cup [Mmin : StatPool, Mmax : StatPool]
    /\ steps = 1
    /\ mh = FALSE
    /\ batched = <<>>
    /\ bpc = "start"
    /\ layout = <<>>
    /\ ds = None
    /\ out = None

\* the caller evaluates normalize(M) or normalize(M, Mmin, Mmax)
Normalize ==
    /\ bpc = "start"
    /\ bpc' = "normalized"
    /\ batched' = normalize(x, args)
    /\ UNCHANGED <<x, steps, mh, layout, ds, args, out>>
    /\ UNCHANGED pvars

\* the caller evaluates min_max_denorm on what normalize returned
Denormalize ==
    /\ bpc = "normalized"
    /\ bpc' = "denormalized"
    /\ out' = min_max_denorm(batched.M_norm, batched.Mmin, batched.Mmax)
    /\ UNCHANGED <<x, steps, mh, batched, layout, ds, args>>
    /\ UNCHANGED pvars

NormNext ==
    \/ Normalize
    \/ Denormalize

InitNorm == ProblemInit /\ NormInit

SpecNorm == InitNorm /\ [][NormNext]_vars

\* ------------------------------- normalize / min_max_denorm: properties
ConstantColumn(c) == \A r \in 1..Len(x) : x[r][c] = x[1][c]

NormalizedToZeros(c) == \A r \in 1..Len(x) : batched.M_norm[r][c] = Num(0, 1)

Reconstructed(c) == \A r \in 1..Len(x) : out[r][c] = Num(x[r][c], 1)

AllFinite(m) ==
    \A r \in 1..Len(m) : \A c \in 1..2 : m[r][c].kind \in {"num", "max"}

\* C20 as stated: whether the min and max are inferred or supplied by the
\* caller, denormalizing the normalized M gives M back, and every constant
\* column of M is normalized to zeros, never to NaN or Inf.
C20_Original_RoundTripAnyStats ==
    /\ bpc \in {"normalized", "denormalized"} =>
          /\ AllFinite(batched.M_norm)
          /\ \A c \in 1..2 : ConstantColumn(c) => NormalizedToZeros(c)
    /\ bpc = "denormalized" => \A c \in 1..2 : Reconstructed(c)

\* C20: no normalized entry is NaN or Inf.  With min and max inferred by
\* normalize, denormalizing gives M back and every constant column is
\* normalized to zeros.  With min and max supplied by the caller,
\* denormalizing gives back every column whose supplied max differs from its
\* supplied min, and a constant column is normalized to zeros exactly when
\* its value equals the supplied min.
C20_RoundTripPerStats ==
    /\ bpc \in {"normalized", "denormalized"} =>
          /\ AllFinite(batched.M_norm)
          /\ args = None =>
                \A c \in 1..2 : ConstantColumn(c) => NormalizedToZeros(c)
          /\ args # None =>
                \A c \in 1..2 :
                    ConstantColumn(c) =>
                        (NormalizedToZeros(c) <=> x[1][c] = args.Mmin[c])
    /\ bpc = "denormalized" =>
          /\ AllFinite(out)
          /\ \A c \in 1..2 :
                (args = None \/ args.Mmax[c] # args.Mmin[c]) => Reconstructed(c)

C20_Witness ==
    /\ bpc = "denormalized"
    /\ args # None
    /\ args.Mmax[1] = args.Mmin[1]
    /\ x[1][1] # args.Mmin[1]
    /\ batched.M_norm[1][1].kind = "max"
    /\ ~Reconstructed(1)
    /\ args.Mmax[2] # args.Mmin[2]
    /\ batched.M_norm[1][2].d = 2
    /\ Reconstructed(2)

\* ------------------------------------------------ splitting and make_loop
\* split_ratio arguments: percentages for train and dev
RatioPool ==
    {[train |-> 50, dev |-> 25], [train |-> 60, dev |-> 20], [train |-> 100, dev |-> 0]}

TypeError(where) == [type |-> "TypeError", args |-> <<>>, where |-> where]

ValueError(where) == [type |-> "ValueError", args |-> <<>>, where |-> where]

\* split_data(data, split_ratio): with a ratio, train_offs is built as
\* slice(0, int(split_ratio[0] / 100) * nsim) and dev_offs then subscripts it,
\* train_offs[1]; a slice object is not subscriptable, so the call raises
\* TypeError before any part is cut
split_data_call(s, split_ratio) ==
    IF split_ratio = None
    THEN [raised |-> FALSE, error |-> NoError, parts |-> split_data(s)]
    ELSE [raised |-> TRUE, error |-> TypeError("split_data"), parts |-> None]

\* Dataset.split_train_test_dev on one (nsteps, nsamples, dim) array
SplitSamples(t, lo, hi) == [j \in 1..Len(t) |-> Slice(t[j], lo, hi)]

\* a split whose parts come back in the order train, test, dev
split_train_test_dev_swapped(nstep) ==
    LET nsamples == Len(nstep[CHOOSE k \in DOMAIN nstep : TRUE][1])
        train_idx == nsamples \div 3
        dev_idx == train_idx * 2
    IN [train |-> [k \in DOMAIN nstep |-> SplitSamples(nstep[k], 0, train_idx)],
        dev |-> [k \in DOMAIN nstep |-> SplitSamples(nstep[k], dev_idx, nsamples)],
        test |-> [k \in DOMAIN nstep |-> SplitSamples(nstep[k], train_idx, dev_idx)]]

\* Dataset.split_train_test_dev(data): every array has the same number of
\* samples as the first
split_train_test_dev(nstep) ==
    LET nsamples == Len(nstep[CHOOSE k \in DOMAIN nstep : TRUE][1])
        train_idx == nsamples \div 3
        dev_idx == train_idx * 2
    IN [train |-> [k \in DOMAIN nstep |-> SplitSamples(nstep[k], 0, train_idx)],
        dev |-> [k \in DOMAIN nstep |-> SplitSamples(nstep[k], train_idx, dev_idx)],
        test |-> [k \in DOMAIN nstep |-> SplitSamples(nstep[k], dev_idx, nsamples)]]

\* Dataset.make_nstep for the single variable Y
make_nstep(s, nsteps, batch_type) ==
    LET loop_data == [Yp |-> Slice(s, 0, Len(s) - nsteps),
                      Yf |-> Slice(s, nsteps, Len(s))]
        past == IF batch_type = "mh" THEN batch_mh_data(loop_data.Yp, nsteps)
                ELSE batch_data(loop_data.Yp, nsteps)
        future == IF batch_type = "mh" THEN batch_mh_data(loop_data.Yf, nsteps)
                  ELSE batch_data(loop_data.Yf, nsteps)
    IN IF past.raised \/ future.raised
       THEN [raised |-> TRUE, self |-> None]
       ELSE LET nstep_data == [Yp |-> past.value, Yf |-> future.value]
                parts == split_train_test_dev(nstep_data)
            IN [raised |-> FALSE,
                self |-> [batch_type |-> batch_type,
                          nsteps |-> nsteps,
                          loop_data |-> loop_data,
                          nstep_data |-> nstep_data,
                          train_data |-> parts.train,
                          dev_data |-> parts.dev,
                          test_data |-> parts.test]]

\* Dataset.unbatch / Dataset.unbatch_mh on one part
Unbatch(d, part) ==
    [k \in DOMAIN part |->
        IF d.batch_type = "mh" THEN unbatch_mh_data(part[k]) ELSE unbatch_data(part[k])]

\* unbatch_mh_data on a part without samples: reshape(-1, 1, 0) of the empty
\* array raises ValueError
UnbatchRaises(d, part) ==
    d.batch_type = "mh" /\ \E k \in DOMAIN part : Len(part[k][1]) = 0

\* ndarray.squeeze(1) of an (n, 1, dim) array
Squeeze1(t) == [r \in 1..Len(t) |-> t[r][1]]

\* Dataset.make_loop up to its assertion
make_loop(d) ==
    IF UnbatchRaises(d, d.train_data) \/ UnbatchRaises(d, d.dev_data)
          \/ UnbatchRaises(d, d.test_data)
    THEN [raised |-> TRUE, error |-> ValueError("unbatch_mh_data"), loops |-> None]
    ELSE LET train_loop == Unbatch(d, d.train_data)
             dev_loop == Unbatch(d, d.dev_data)
             test_loop == Unbatch(d, d.test_data)
             all_loop == [k \in DOMAIN d.train_data |->
                             Squeeze1(train_loop[k] \o dev_loop[k] \o test_loop[k])]
         IN IF \E k \in DOMAIN d.train_data :
                   all_loop[k] # Slice(d.loop_data[k], 0, Len(all_loop[k]))
            THEN [raised |-> TRUE,
                  error |-> AssertionError("Reshaped data is not equal to truncated original data",
                                           "make_loop"),
                  loops |-> None]
            ELSE [raised |-> FALSE, error |-> NoError,
                  loops |-> [train_loop |-> train_loop, dev_loop |-> dev_loop,
                             test_loop |-> test_loop, all_loop |-> all_loop]]

SplitInit ==
    /\ x \in LoaderSeriesPool
    /\ steps \in 1..MaxLoaderSteps
    /\ mh \in BOOLEAN
    /\ batched = <<>>
    /\ bpc = "start"
    /\ layout = <<>>
    /\ ds = None
    /\ args = None
    /\ out = None

\* the caller evaluates split_data({"Y": x}) or split_data({"Y": x}, ratio)
SplitData ==
    /\ bpc = "start"
    /\ \E ratio \in {None} \cup RatioPool :
        LET r == split_data_call(x, ratio) IN
        /\ args' = [split_ratio |-> ratio]
        /\ out' = r
        /\ bpc' = IF r.raised THEN "spliterror" ELSE "split"
    /\ UNCHANGED <<x, steps, mh, batched, layout, ds>>
    /\ UNCHANGED pvars

\* Dataset.__init__ reaches make_nstep with data = {"Y": x}
MakeNstep ==
    /\ bpc = "start"
    /\ LET r == make_nstep(x, steps, IF mh THEN "mh" ELSE "chunk") IN
       IF r.raised
       THEN bpc' = "error" /\ ds' = ds
       ELSE bpc' = "nstep" /\ ds' = r.self
    /\ UNCHANGED <<x, steps, mh, batched, layout, args, out>>
    /\ UNCHANGED pvars

\* Dataset.__init__ goes on to make_loop
MakeLoop ==
    /\ bpc = "nstep"
    /\ out' = make_loop(ds)
    /\ bpc' = IF out'.raised THEN "looperror" ELSE "loop"
    /\ UNCHANGED <<x, steps, mh, batched, layout, ds, args>>
    /\ UNCHANGED pvars

SplitNext ==
    \/ SplitData
    \/ MakeNstep
    \/ MakeLoop

InitSplit == ProblemInit /\ SplitInit

SpecSplit == InitSplit /\ [][SplitNext]_vars

\* --------------------------------------- splitting and make_loop: properties
\* the rows lo+1..hi of a sequence, by index
IndexRange(s, lo, hi) == [i \in 1..(hi - lo) |-> s[lo + i]]

\* C21: the default split cuts n rows (split_data) or n samples
\* (split_train_test_dev) into the index ranges [0, s), [s, 2s), [2s, n) with
\* s = n div 3, handed out as train, dev, test; the three are contiguous,
\* disjoint, in increasing order and cover every index once.
C21_DefaultSplitIsThirds ==
    /\ (bpc = "split" /\ args.split_ratio = None) =>
          LET n == Len(x)
              s == n \div 3
          IN /\ out.parts.train = IndexRange(x, 0, s)
             /\ out.parts.dev = IndexRange(x, s, 2 * s)
             /\ out.parts.test = IndexRange(x, 2 * s, n)
             /\ out.parts.train \o out.parts.dev \o out.parts.test = x
    /\ bpc \in {"nstep", "loop", "looperror"} =>
          \A k \in {"Yp", "Yf"} : \A j \in 1..steps :
              LET row == ds.nstep_data[k][j]
                  n == Len(row)
                  s == n \div 3
              IN /\ ds.train_data[k][j] = IndexRange(row, 0, s)
                 /\ ds.dev_data[k][j] = IndexRange(row, s, 2 * s)
                 /\ ds.test_data[k][j] = IndexRange(row, 2 * s, n)
                 /\ ds.train_data[k][j] \o ds.dev_data[k][j] \o ds.test_data[k][j]
                        = row

C21_Witness ==
    /\ bpc = "split"
    /\ args.split_ratio = None
    /\ Len(x) = 5
    /\ Len(out.parts.train) = 1
    /\ Len(out.parts.dev) = 1
    /\ Len(out.parts.test) = 3
    /\ x[1] # x[2]
    /\ x[2] # x[3]

\* C22: split_data with a split_ratio of percentages [a, b] returns three
\* parts that partition the rows [0, nsim) in increasing order: train the
\* first a% of nsim rows, dev the next b% of nsim rows, test the rest.
C22_RatioSplitPartitions ==
    (bpc \in {"split", "spliterror"} /\ args.split_ratio # None) =>
        /\ bpc = "split"
        /\ LET n == Len(x)
               a == (args.split_ratio.train * n) \div 100
               b == (args.split_ratio.dev * n) \div 100
           IN /\ out.parts.train = Slice(x, 0, a)
              /\ out.parts.dev = Slice(x, a, a + b)
              /\ out.parts.test = Slice(x, a + b, n)

\* C26: in make_loop, for both batch types, the assertion that the
\* concatenated train, dev and test open-loop data equal the original
\* past/future series cut to the same length never fails.
C26_MakeLoopAssertionHolds ==
    /\ bpc = "looperror" => out.error.type # "AssertionError"
    /\ bpc = "loop" =>
          \A k \in {"Yp", "Yf"} :
              LET joined == out.loops.train_loop[k] \o out.loops.dev_loop[k]
                                \o out.loops.test_loop[k]
              IN joined = WithSampleAxis(Slice(ds.loop_data[k], 0, Len(joined)))

C26_Witness ==
    /\ bpc = "loop"
    /\ mh
    /\ Len(x) = 6
    /\ steps = 1
    /\ Len(out.loops.train_loop["Yp"]) = 1
    /\ Len(out.loops.test_loop["Yp"]) = 2
    /\ out.loops.train_loop["Yp"] # out.loops.dev_loop["Yp"]

\* ------------------------------------------------------------ estimators
MaxNsteps == 2

\* the estimator classes: LinearEstimator stands for the classes whose net is
\* a feed-forward block on features() (Linear, MLP, ResMLP)
EstimatorClasses ==
    {"LinearEstimator", "seq2seqLinearEstimator", "FullyObservable", "RNNEstimator"}

\* data_dims arguments: a tuple of length 2 declares a sequence (nsteps, dim),
\* a tuple of length 1 a static input (dim,)
DimsPool == {
    [k \in {"x0", "Yp"} |-> IF k = "x0" THEN <<2>> ELSE <<2, 2>>],
    [k \in {"x0", "Yp", "Up"} |-> IF k = "x0" THEN <<2>>
                                 ELSE IF k = "Yp" THEN <<2, 2>> ELSE <<1>>],
    [k \in {"Yp", "Up"} |-> IF k = "Yp" THEN <<2, 2>> ELSE <<1>>]
}

InputKeysPool == {<<"Yp">>, <<"Yp", "Up">>}

\* the name argument: <<>> stands for None
NamePool == {<<"estim">>, <<>>}

\* tensors are modelled by their shapes
YpShapes == {<<3, 1, 2>>, <<1, 1, 2>>, <<3, 1, 3>>, <<1, 2>>, <<1, 3>>}

UpShapes == {<<1, 1>>, <<3, 1, 1>>}

\* the dictionaries handed to forward
ForwardPool ==
    {[k \in {"Yp"} |-> y] : y \in YpShapes}
        \cup {[k \in {"Up"} |-> u] : u \in UpShapes}
        \cup {[k \in {"Yp", "Up"} |-> IF k = "Yp" THEN y ELSE u] :
                 y \in YpShapes, u \in UpShapes}

\* v[-1]
Last(v) == v[Len(v)]

SeqRange(q) == {q[i] : i \in 1..Len(q)}

RECURSIVE SumLast(_, _)
\* sum(v[-1] for k, v in dims.items() if k in keys)
SumLast(dims, keys) ==
    IF keys = {} THEN 0
    ELSE LET k == CHOOSE k \in keys : TRUE IN
         Last(dims[k]) + SumLast(dims, keys \ {k})

IndexError(where) == [type |-> "IndexError", args |-> <<>>, where |-> where]

RuntimeError(where) == [type |-> "RuntimeError", args |-> <<>>, where |-> where]

\* check_key_subset(k1, k2) of neuromancer.component: fails when a key of k1
\* is not in k2, naming the missing keys
check_key_subset(k1, k2) ==
    IF k1 \subseteq k2
    THEN NoError
    ELSE [type |-> "AssertionError", args |-> <<k1 \ k2>>, where |-> "check_key_subset"]

\* Component.__init__(input_keys, output_keys, name): a component owns the
\* ordered key lists and the name it is constructed with
Component(input_keys, output_keys, name) ==
    [input_keys |-> input_keys, output_keys |-> output_keys, name |-> name]

\* the output_keys built by TimeDelayEstimator.__init__
OutputKeys(name) ==
    [i \in 1..2 |-> LET k == <<"x0", "reg_error">>[i] IN
                    IF name # <<>> THEN k \o "_" \o name[1] ELSE k]

\* TimeDelayEstimator.__init__ after its window_size assertion, followed by
\* the subclass constructor, which builds self.net last
ConstructChecked(cls, data_dims, nsteps, window_size, input_keys, name) ==
    LET keyCheck == check_key_subset(SeqRange(input_keys), DOMAIN data_dims)
        dims_in == DOMAIN data_dims \cap SeqRange(input_keys)
        sequence_dims_sum == SumLast(data_dims, {k \in dims_in : Len(data_dims[k]) = 2})
        static_dims_sum == SumLast(data_dims, {k \in dims_in : Len(data_dims[k]) = 1})
    IN IF keyCheck.type # "none"
       THEN [raised |-> TRUE, error |-> keyCheck, self |-> None]
       ELSE IF "x0" \notin DOMAIN data_dims
       THEN [raised |-> TRUE, error |-> KeyError("x0", "TimeDelayEstimator.__init__"),
             self |-> None]
       ELSE [raised |-> FALSE, error |-> NoError,
             self |-> [cls |-> cls, name |-> name,
                       input_keys |-> Component(input_keys, OutputKeys(name), name).input_keys,
                       output_keys |-> Component(input_keys, OutputKeys(name), name).output_keys,
                       data_dims |-> data_dims,
                       nsteps |-> nsteps, window_size |-> window_size,
                       nx |-> Last(data_dims["x0"]),
                       sequence_dims_sum |-> sequence_dims_sum,
                       static_dims_sum |-> static_dims_sum,
                       in_features |->
                           IF cls = "RNNEstimator" THEN sequence_dims_sum
                           ELSE static_dims_sum + window_size * sequence_dims_sum,
                       out_features |-> Last(data_dims["x0"]),
                       net |-> IF cls = "FullyObservable" THEN "Identity" ELSE "block"]]

\* a constructor that skips the window_size assertion
TimeDelayEstimatorNoWindowCheck(cls, data_dims, nsteps, window_size, input_keys, name) ==
    ConstructChecked(cls, data_dims, nsteps, window_size, input_keys, name)

\* TimeDelayEstimator.__init__ as run by every derived class
TimeDelayEstimator(cls, data_dims, nsteps, window_size, input_keys, name) ==
    IF ~(window_size <= nsteps)
    THEN [raised |-> TRUE,
          error |-> AssertionError("Window size " \o ToString(window_size)
                                       \o " longer than sequence length "
                                       \o ToString(nsteps) \o ".",
                                   "TimeDelayEstimator.__init__"),
          self |-> None]
    ELSE ConstructChecked(cls, data_dims, nsteps, window_size, input_keys, name)

\* TimeDelayEstimator.features: the number of columns of the feature matrix,
\* or the first check that fails
RECURSIVE FeatureColumns(_, _, _)
FeatureColumns(est, dict, keys) ==
    IF keys = <<>> THEN [raised |-> FALSE, error |-> NoError, cols |-> 0]
    ELSE LET k == Head(keys)
             shape == dict[k]
             rest == FeatureColumns(est, dict, Tail(keys))
         IN IF Last(est.data_dims[k]) # Last(shape)
            THEN [raised |-> TRUE,
                  error |-> AssertionError("Input feature " \o k \o " expected "
                                               \o ToString(Last(est.data_dims[k]))
                                               \o " but got " \o ToString(Last(shape)),
                                           "TimeDelayEstimator.features"),
                  cols |-> 0]
            ELSE IF Len(shape) = 2
            THEN IF rest.raised THEN rest
                 ELSE [rest EXCEPT !.cols = Last(shape) + rest.cols]
            ELSE IF Len(shape) = 3
            THEN IF ~(shape[1] >= est.nsteps)
                 THEN [raised |-> TRUE,
                       error |-> AssertionError(
                                     "Sequence too short for estimator calculation. Should be at least "
                                         \o ToString(est.nsteps),
                                     "TimeDelayEstimator.features"),
                       cols |-> 0]
                 ELSE IF rest.raised THEN rest
                 ELSE [rest EXCEPT !.cols = est.window_size * Last(shape) + rest.cols]
            ELSE [raised |-> TRUE, error |-> ValueError("TimeDelayEstimator.features"),
                  cols |-> 0]

\* TimeDelayEstimator.features(data)
features(est, dict) ==
    LET keyCheck == check_key_subset(SeqRange(est.input_keys), DOMAIN dict) IN
    IF keyCheck.type # "none"
    THEN [raised |-> TRUE, error |-> keyCheck, cols |-> 0]
    ELSE FeatureColumns(est, dict, est.input_keys)

\* an output dictionary under the class's DEFAULT_OUTPUT_KEYS
ZipOutputDefaultKeys(est, first) ==
    [k \in {"Xtd", "reg_error"} |-> IF k = "Xtd" THEN first ELSE <<>>]

\* {name: tensor for tensor, name in zip([first, reg_error], self.output_keys)}
ZipOutput(est, first) ==
    [k \in SeqRange(est.output_keys) |->
        IF k = est.output_keys[1] THEN first ELSE <<>>]

Returned(value) == [raised |-> FALSE, error |-> NoError, value |-> value]

Raised(error) == [raised |-> TRUE, error |-> error, value |-> None]

\* TimeDelayEstimator.forward and seq2seqTimeDelayEstimator.forward on
\* features(); the net rejects a feature matrix whose width is not in_features
ForwardOnFeatures(est, dict) ==
    LET f == features(est, dict)
        batch == dict[est.input_keys[1]][Len(dict[est.input_keys[1]]) - 1]
    IN IF f.raised THEN Raised(f.error)
       ELSE IF f.cols # est.in_features THEN Raised(RuntimeError("net"))
       ELSE IF est.cls = "seq2seqLinearEstimator"
       THEN Returned(ZipOutput(est, <<1, batch, est.nx>>))
       ELSE Returned(ZipOutput(est, <<batch, est.out_features>>))

\* FullyObservable: features() is data['Yp'][self.nsteps - 1], the net is the
\* identity
ForwardFullyObservable(est, dict) ==
    IF "Yp" \notin DOMAIN dict
    THEN Raised(KeyError("Yp", "FullyObservable.features"))
    ELSE IF ~(est.nsteps - 1 < dict["Yp"][1])
    THEN Raised(IndexError("FullyObservable.features"))
    ELSE Returned(ZipOutput(est, Tail(dict["Yp"])))

\* RNNEstimator.forward: torch.cat of data[k][nsteps - window_size:nsteps]
\* along dim 2, then the net
RECURSIVE ForwardRNNColumns(_, _, _)
ForwardRNNColumns(est, dict, keys) ==
    IF keys = <<>> THEN [raised |-> FALSE, error |-> NoError, cols |-> 0]
    ELSE LET k == Head(keys)
             rest == ForwardRNNColumns(est, dict, Tail(keys))
         IN IF k \notin DOMAIN dict
            THEN [raised |-> TRUE, error |-> KeyError(k, "RNNEstimator.forward"),
                  cols |-> 0]
            ELSE IF rest.raised THEN rest
            ELSE IF Len(dict[k]) # 3
            THEN [raised |-> TRUE, error |-> IndexError("RNNEstimator.forward"),
                  cols |-> 0]
            ELSE [rest EXCEPT !.cols = Last(dict[k]) + rest.cols]

\* the number of steps in data[k][nsteps - window_size:nsteps]
WindowSteps(est, shape) ==
    LET hi == IF shape[1] < est.nsteps THEN shape[1] ELSE est.nsteps
        lo == IF shape[1] < est.nsteps - est.window_size THEN shape[1]
              ELSE est.nsteps - est.window_size
    IN hi - lo

\* torch.cat needs the same number of steps under every key; the recurrent
\* block is taken to reject an empty sequence and a wrong feature width
ForwardRNN(est, dict) ==
    LET f == ForwardRNNColumns(est, dict, est.input_keys)
        lens == {WindowSteps(est, dict[k]) : k \in SeqRange(est.input_keys)}
    IN IF f.raised THEN Raised(f.error)
       ELSE IF Cardinality(lens) # 1 THEN Raised(RuntimeError("torch.cat"))
       ELSE IF lens = {0} \/ f.cols # est.in_features THEN Raised(RuntimeError("net"))
       ELSE Returned(ZipOutput(est, <<dict[est.input_keys[1]][2], est.out_features>>))

\* estimator.forward(data)
Forward(est, dict) ==
    IF est.cls = "FullyObservable" THEN ForwardFullyObservable(est, dict)
    ELSE IF est.cls = "RNNEstimator" THEN ForwardRNN(est, dict)
    ELSE ForwardOnFeatures(est, dict)

EstimInit ==
    /\ args \in [cls : EstimatorClasses, data_dims : DimsPool,
                 window_size : 1..(MaxNsteps + 1), input_keys : InputKeysPool,
                 name : NamePool]
    /\ steps \in 1..MaxNsteps
    /\ x = <<>>
    /\ mh = FALSE
    /\ batched = <<>>
    /\ bpc = "start"
    /\ layout = <<>>
    /\ ds = None
    /\ out = None

\* the caller constructs the estimator
EstimConstruct ==
    /\ bpc = "start"
    /\ LET r == TimeDelayEstimator(args.cls, args.data_dims, steps, args.window_size,
                                   args.input_keys, args.name)
       IN IF r.raised
          THEN bpc' = "error" /\ out' = r.error /\ ds' = ds
          ELSE bpc' = "built" /\ out' = out /\ ds' = r.self
    /\ UNCHANGED <<x, steps, mh, batched, layout, args>>
    /\ UNCHANGED pvars

\* the caller evaluates estimator.features(data) on a class that inherits
\* TimeDelayEstimator.features
EstimFeatures ==
    /\ bpc = "built"
    /\ ds.cls # "FullyObservable"
    /\ \E dict \in ForwardPool :
        /\ x' = dict
        /\ out' = features(ds, dict)
    /\ bpc' = "features"
    /\ UNCHANGED <<steps, mh, batched, layout, ds, args>>
    /\ UNCHANGED pvars

\* the caller evaluates estimator(data)
EstimForward ==
    /\ bpc \in {"built", "called"}
    /\ \E dict \in ForwardPool :
        /\ x' = dict
        /\ out' = Forward(ds, dict)
    /\ bpc' = "called"
    /\ UNCHANGED <<steps, mh, batched, layout, ds, args>>
    /\ UNCHANGED pvars

EstimNext ==
    \/ EstimConstruct
    \/ EstimFeatures
    \/ EstimForward

InitEstim == ProblemInit /\ EstimInit

SpecEstim == InitEstim /\ [][EstimNext]_vars

\* --------------------------------------------------- estimators: properties
\* C23: constructing a TimeDelayEstimator-derived estimator with
\* window_size > nsteps fails with the window assertion before the estimator
\* or its net exists; with window_size <= nsteps that assertion never fails.
C23_WindowChecked ==
    /\ (bpc # "start" /\ args.window_size > steps) =>
          /\ bpc = "error"
          /\ ds = None
          /\ out.type = "AssertionError"
          /\ out.where = "TimeDelayEstimator.__init__"
    /\ (bpc = "error" /\ args.window_size <= steps) =>
          out.where # "TimeDelayEstimator.__init__" \/ out.type # "AssertionError"

C23_Witness ==
    /\ bpc = "error"
    /\ args.cls = "RNNEstimator"
    /\ args.window_size = 3
    /\ steps = 2
    /\ out = AssertionError("Window size 3 longer than sequence length 2.",
                            "TimeDelayEstimator.__init__")

OffendingKeys ==
    {k \in SeqRange(ds.input_keys) :
        k \notin DOMAIN x \/ Last(x[k]) # Last(ds.data_dims[k])}

NamesKey(error, k) ==
    IF error.type = "KeyError" THEN error.args = <<k>>
    ELSE IF error.type # "AssertionError" THEN FALSE
    ELSE IF error.where = "check_key_subset" THEN k \in error.args[1]
    ELSE k \in DOMAIN x /\
         error.args = <<"Input feature " \o k \o " expected "
                          \o ToString(Last(ds.data_dims[k]))
                          \o " but got " \o ToString(Last(x[k]))>>

\* C25: a forward call whose dictionary lacks a declared input key, or holds
\* an input key with a feature dimension other than the declared one, fails
\* with an error that names an offending key, and returns no dictionary.
C25_BadInputFails ==
    (bpc = "called" /\ OffendingKeys # {}) =>
        /\ out.raised
        /\ \E k \in OffendingKeys : NamesKey(out.error, k)

\* C29: whenever features() passes its checks, the feature matrix it returns
\* has static_dims_sum + window_size * sequence_dims_sum columns, whatever the
\* lengths of the declared dimension tuples and the ranks of the tensors.
C29_FeatureWidth ==
    (bpc = "features" /\ ~out.raised) =>
        out.cols = ds.static_dims_sum + ds.window_size * ds.sequence_dims_sum

\* C27: the column ranges recorded by SequenceDataset follow the insertion
\* order of the data mapping, start at column 0, each begin where the one
\* before ends, are non-empty and end at the last column of the concatenated
\* series, and the columns of the range of a variable k are the columns of
\* data[k].
C27_ColumnRangesPartition ==
    DatasetBuilt =>
        LET vs == ds.vslices IN
        /\ Len(vs) = Len(layout)
        /\ \A e \in 1..Len(vs) :
              /\ vs[e].k = layout[e].k
              /\ vs[e].start < vs[e].stop
              /\ vs[e].start = IF e = 1 THEN 0 ELSE vs[e - 1].stop
        /\ vs[Len(vs)].stop = NumCols(ds.full_data)
        /\ \A e \in 1..Len(vs) : \A t \in 1..Len(x) :
              ColSlice(ds.full_data[t], vs[e]) = DataArray(layout[e], x)[t]

C27_Witness ==
    /\ bpc = "built"
    /\ Len(layout) = 2
    /\ layout[1].k = "U"
    /\ ds.vslices = <<[k |-> "U", start |-> 0, stop |-> 1],
                      [k |-> "Y", start |-> 1, stop |-> 2]>>
    /\ x[1] = <<0, 1>>
    /\ ds.full_data[1] = <<1, 0>>

\* ------------------------------------------------- Problem: more properties
C28Step == pc # "built" => data' = data

\* C28: step, calculate_loss and forward leave the dictionary object the
\* caller passed in as it was: from the call on it keeps its keys and values,
\* whatever the Problem holds and whether the call succeeds or fails.
C28_CallerDictUntouched == [][C28Step]_vars

\* a term is named like a key of the input data or like an output key of a
\* component
CollidingTerms ==
    {i \in 1..Len(AllTerms) :
        AllTerms[i].name \in DOMAIN data
            \cup UNION {OutKeys(components[j]) : j \in 1..Len(components)}}

ForwardEnded == op = "forward" /\ pc \in {"done", "failed"}

\* the failure ends calculate_loss at the merge of the k-th term, the terms
\* before it and the term itself having been called in order
FailsAtMergeOfTerm(k) ==
    /\ pc = "failed"
    /\ err = AssertionError(NameCollisionMsg, "calculate_loss")
    /\ Len(TermTrace) = k
    /\ \A j \in 1..k : TermTrace[j].name = AllTerms[j].name
    /\ AllTerms[k].name \in DOMAIN input_dict
    /\ result = None

\* C30 as stated: a Problem with such a term is constructed, and every
\* forward pass on it fails in calculate_loss with the name-collision
\* assertion at the merge of such a term.
C30_Original_AlwaysCollisionAssertion ==
    /\ (pc # "new" /\ ~HasDuplicateNames) => (pc = "failed" => err.where # "__init__")
    /\ (ForwardEnded /\ CollidingTerms # {}) =>
          \E k \in CollidingTerms : FailsAtMergeOfTerm(k)

\* C30: a Problem with such a term is constructed when its term names are
\* pairwise distinct, and no forward pass on it returns: it fails with the
\* name-collision assertion of calculate_loss at the merge of such a term,
\* the terms before it having been evaluated, unless a component or a term
\* raises earlier, with a KeyError for a missing key or with the
\* name-collision assertion of step.
C30_CollidingTermFailsForward ==
    /\ (pc # "new" /\ ~HasDuplicateNames) => (pc = "failed" => err.where # "__init__")
    /\ (op = "forward" /\ CollidingTerms # {}) => pc \notin {"prefix", "done"}
    /\ (ForwardEnded /\ CollidingTerms # {}) =>
          \/ \E k \in CollidingTerms : FailsAtMergeOfTerm(k)
          \/ pc = "failed" /\ err.type = "KeyError"
                /\ err.where \in {"step", "calculate_loss"}
          \/ pc = "failed" /\ err = AssertionError(NameCollisionMsg, "step")

C30_Witness ==
    /\ ForwardEnded
    /\ Len(components) = 1
    /\ Len(AllTerms) = 2
    /\ AllTerms[2].name = "x0"
    /\ "x0" \in OutKeys(components[1])
    /\ "x0" \notin DOMAIN data
    /\ FailsAtMergeOfTerm(2)
    /\ TermTrace[1].name = "a"

====
